---- MODULE Spec2Model ----
(***************************************************************************)
(* Rock-Paper-Scissors-Plus referee (game_referee.py).                     *)
(*                                                                         *)
(* Python str values are sequences of one-character strings, so that       *)
(* strip(), lower(), upper() and capitalize() are computed character by    *)
(* character.  Literal message templates are kept as TLA+ strings in the   *)
(* fmt field of a formatted text, with the interpolated value in arg.      *)
(***************************************************************************)
EXTENDS Integers, Sequences, FiniteSets, TLC

\* ------------------------------------------------------------------
\* Bounds of the model
\* ------------------------------------------------------------------
\* most whitespace characters put on either side of a typed word
MaxPad == 1
\* largest round_number of a GameState handed to a tool called on its own
MaxRoundArg == 3
\* largest score of a GameState handed to a tool called on its own
MaxScoreArg == 2

\* ------------------------------------------------------------------
\* Characters and str methods
\* ------------------------------------------------------------------
LowerAlpha == << "a","b","c","d","e","f","g","h","i","j","k","l","m",
                 "n","o","p","q","r","s","t","u","v","w","x","y","z" >>

UpperAlpha == << "A","B","C","D","E","F","G","H","I","J","K","L","M",
                 "N","O","P","Q","R","S","T","U","V","W","X","Y","Z" >>

Whitespace == { " ", "\t" }

lower_char(c) ==
    IF \E i \in 1..Len(UpperAlpha) : UpperAlpha[i] = c
    THEN LowerAlpha[CHOOSE i \in 1..Len(UpperAlpha) : UpperAlpha[i] = c]
    ELSE c

upper_char(c) ==
    IF \E i \in 1..Len(LowerAlpha) : LowerAlpha[i] = c
    THEN UpperAlpha[CHOOSE i \in 1..Len(LowerAlpha) : LowerAlpha[i] = c]
    ELSE c

\* str.lower()
lower(s) == [i \in 1..Len(s) |-> lower_char(s[i])]

\* str.upper()
upper(s) == [i \in 1..Len(s) |-> upper_char(s[i])]

\* str.capitalize(): first character upper-cased, the rest lower-cased
capitalize(s) ==
    [i \in 1..Len(s) |-> IF i = 1 THEN upper_char(s[i]) ELSE lower_char(s[i])]

RECURSIVE lstrip(_)
lstrip(s) ==
    IF s # << >> /\ Head(s) \in Whitespace THEN lstrip(Tail(s)) ELSE s

RECURSIVE rstrip(_)
rstrip(s) ==
    IF s # << >> /\ s[Len(s)] \in Whitespace
    THEN rstrip(SubSeq(s, 1, Len(s) - 1))
    ELSE s

\* str.strip()
strip(s) == rstrip(lstrip(s))

\* ------------------------------------------------------------------
\* Values
\* ------------------------------------------------------------------
Rock == << "r","o","c","k" >>
Paper == << "p","a","p","e","r" >>
Scissors == << "s","c","i","s","s","o","r","s" >>
Bomb == << "b","o","m","b" >>

\* Python's None (no str equals it)
None == << "<None>" >>

WinUser == << "u","s","e","r" >>
WinBot == << "b","o","t" >>
WinDraw == << "d","r","a","w" >>

NoArg == << >>

\* a formatted text: the literal template and the value interpolated in it
Text(fmt, arg) == [fmt |-> fmt, arg |-> arg]

EmptyText == Text("", NoArg)

\* truthiness of a str: non-empty
Truthy(t) == t.fmt # ""

\* GameState() with the dataclass defaults
DefaultMaxRounds == 3

\* variant: the round counter starts at 1
GameState_from_one ==
    [round_number |-> 1, user_score |-> 0, bot_score |-> 0,
     user_bomb_used |-> FALSE, bot_bomb_used |-> FALSE,
     max_rounds |-> DefaultMaxRounds]

GameState ==
    [round_number |-> 0, user_score |-> 0, bot_score |-> 0,
     user_bomb_used |-> FALSE, bot_bomb_used |-> FALSE,
     max_rounds |-> DefaultMaxRounds]

ValidateResult(valid, move, message) ==
    [valid |-> valid, move |-> move, message |-> message]

RoundResult(winner, explanation) ==
    [winner |-> winner, explanation |-> explanation]

\* ------------------------------------------------------------------
\* Tools
\* ------------------------------------------------------------------
valid_moves == { Rock, Paper, Scissors, Bomb }

\* variant: the shorthand s is not mapped
mapping_no_s(m) ==
    IF m = << "r" >> THEN Rock
    ELSE IF m = << "p" >> THEN Paper
    ELSE m

\* variant: b is taken as a shorthand of bomb
mapping_with_b(m) ==
    IF m = << "r" >> THEN Rock
    ELSE IF m = << "p" >> THEN Paper
    ELSE IF m = << "s" >> THEN Scissors
    ELSE IF m = << "b" >> THEN Bomb
    ELSE m

\* the shorthand mapping of validate_move
mapping(m) ==
    IF m = << "r" >> THEN Rock
    ELSE IF m = << "p" >> THEN Paper
    ELSE IF m = << "s" >> THEN Scissors
    ELSE m

\* variant: the user's flag is consulted for both players
validate_move_user_flag_only(move, state, is_user) ==
    LET m == mapping(lower(strip(move))) IN
    IF m \notin valid_moves
    THEN ValidateResult(FALSE, None,
             Text("Invalid move '{move}'. Valid: rock, paper, scissors, bomb", move))
    ELSE IF m = Bomb /\ state.user_bomb_used
    THEN ValidateResult(FALSE, None,
             Text("Bomb already used by you in this game", NoArg))
    ELSE ValidateResult(TRUE, m, Text("OK", NoArg))

\* variant: no bomb usage enforcement
validate_move_no_bomb_check(move, state, is_user) ==
    LET m == mapping(lower(strip(move))) IN
    IF m \notin valid_moves
    THEN ValidateResult(FALSE, None,
             Text("Invalid move '{move}'. Valid: rock, paper, scissors, bomb", move))
    ELSE ValidateResult(TRUE, m, Text("OK", NoArg))

validate_move(move, state, is_user) ==
    LET m == mapping(lower(strip(move))) IN
    IF m \notin valid_moves
    THEN ValidateResult(FALSE, None,
             Text("Invalid move '{move}'. Valid: rock, paper, scissors, bomb", move))
    ELSE IF m = Bomb /\ is_user /\ state.user_bomb_used
    THEN ValidateResult(FALSE, None,
             Text("Bomb already used by you in this game", NoArg))
    ELSE IF m = Bomb /\ (~is_user) /\ state.bot_bomb_used
    THEN ValidateResult(FALSE, None,
             Text("Bot already used bomb (internal)", NoArg))
    ELSE ValidateResult(TRUE, m, Text("OK", NoArg))

\* variant: scissors and paper exchanged in the table
wins_against_swapped ==
    [m \in { Rock, Paper, Scissors } |->
        IF m = Rock THEN Paper
        ELSE IF m = Paper THEN Rock
        ELSE Scissors]

wins_against ==
    [m \in { Rock, Paper, Scissors } |->
        IF m = Rock THEN Scissors
        ELSE IF m = Paper THEN Rock
        ELSE Paper]

\* variant: the bomb against bomb case is missing
resolve_round_no_double_bomb(user_move, bot_move) ==
    IF user_move = None
    THEN RoundResult(WinBot,
             Text("Invalid user input - round forfeited by user.", NoArg))
    ELSE IF user_move = Bomb
    THEN RoundResult(WinUser, Text("Bomb beats all other moves.", NoArg))
    ELSE IF bot_move = Bomb
    THEN RoundResult(WinBot, Text("Bot used bomb which beats your move.", NoArg))
    ELSE IF user_move = bot_move
    THEN RoundResult(WinDraw, Text("Both chose {user_move} - draw.", user_move))
    ELSE IF wins_against[user_move] = bot_move
    THEN RoundResult(WinUser,
             Text("{user_move.capitalize()} beats {bot_move} - you win the round.",
                  << capitalize(user_move), bot_move >>))
    ELSE RoundResult(WinBot,
             Text("{bot_move.capitalize()} beats {user_move} - bot wins the round.",
                  << capitalize(bot_move), user_move >>))

\* variant: a forfeited round is a draw
resolve_round_forfeit_draw(user_move, bot_move) ==
    IF user_move = None
    THEN RoundResult(WinDraw,
             Text("Invalid user input - round forfeited by user.", NoArg))
    ELSE IF user_move = Bomb /\ bot_move = Bomb
    THEN RoundResult(WinDraw, Text("Both used bomb - draw.", NoArg))
    ELSE IF user_move = Bomb
    THEN RoundResult(WinUser, Text("Bomb beats all other moves.", NoArg))
    ELSE IF bot_move = Bomb
    THEN RoundResult(WinBot, Text("Bot used bomb which beats your move.", NoArg))
    ELSE IF user_move = bot_move
    THEN RoundResult(WinDraw, Text("Both chose {user_move} - draw.", user_move))
    ELSE IF wins_against[user_move] = bot_move
    THEN RoundResult(WinUser,
             Text("{user_move.capitalize()} beats {bot_move} - you win the round.",
                  << capitalize(user_move), bot_move >>))
    ELSE RoundResult(WinBot,
             Text("{bot_move.capitalize()} beats {user_move} - bot wins the round.",
                  << capitalize(bot_move), user_move >>))

resolve_round(user_move, bot_move) ==
    IF user_move = None
    THEN RoundResult(WinBot,
             Text("Invalid user input - round forfeited by user.", NoArg))
    ELSE IF user_move = Bomb /\ bot_move = Bomb
    THEN RoundResult(WinDraw, Text("Both used bomb - draw.", NoArg))
    ELSE IF user_move = Bomb
    THEN RoundResult(WinUser, Text("Bomb beats all other moves.", NoArg))
    ELSE IF bot_move = Bomb
    THEN RoundResult(WinBot, Text("Bot used bomb which beats your move.", NoArg))
    ELSE IF user_move = bot_move
    THEN RoundResult(WinDraw, Text("Both chose {user_move} - draw.", user_move))
    ELSE IF wins_against[user_move] = bot_move
    THEN RoundResult(WinUser,
             Text("{user_move.capitalize()} beats {bot_move} - you win the round.",
                  << capitalize(user_move), bot_move >>))
    ELSE RoundResult(WinBot,
             Text("{bot_move.capitalize()} beats {user_move} - bot wins the round.",
                  << capitalize(bot_move), user_move >>))

\* variant: a draw gives each player a point
update_game_state_draw_scores(state, round_result, user_move, bot_move) ==
    [state EXCEPT
        !.round_number = @ + 1,
        !.user_score = IF round_result.winner = WinBot THEN @ ELSE @ + 1,
        !.bot_score = IF round_result.winner = WinUser THEN @ ELSE @ + 1,
        !.user_bomb_used = IF user_move = Bomb THEN TRUE ELSE @,
        !.bot_bomb_used = IF bot_move = Bomb THEN TRUE ELSE @]

\* variant: the user's bomb is recorded only when it won the round
update_game_state_bomb_if_won(state, round_result, user_move, bot_move) ==
    [state EXCEPT
        !.round_number = @ + 1,
        !.user_score = IF round_result.winner = WinUser THEN @ + 1 ELSE @,
        !.bot_score = IF round_result.winner = WinUser THEN @
                      ELSE IF round_result.winner = WinBot THEN @ + 1 ELSE @,
        !.user_bomb_used = IF user_move = Bomb /\ round_result.winner = WinUser
                           THEN TRUE ELSE @,
        !.bot_bomb_used = IF bot_move = Bomb THEN TRUE ELSE @]

\* variant: a forfeited round is not counted
update_game_state_skip_forfeit(state, round_result, user_move, bot_move) ==
    [state EXCEPT
        !.round_number = IF user_move = None THEN @ ELSE @ + 1,
        !.user_score = IF round_result.winner = WinUser THEN @ + 1 ELSE @,
        !.bot_score = IF round_result.winner = WinUser THEN @
                      ELSE IF round_result.winner = WinBot THEN @ + 1 ELSE @,
        !.user_bomb_used = IF user_move = Bomb THEN TRUE ELSE @,
        !.bot_bomb_used = IF bot_move = Bomb THEN TRUE ELSE @]

\* variant: else instead of elif, a draw scores for the bot
update_game_state_else_bot(state, round_result, user_move, bot_move) ==
    [state EXCEPT
        !.round_number = @ + 1,
        !.user_score = IF round_result.winner = WinUser THEN @ + 1 ELSE @,
        !.bot_score = IF round_result.winner = WinUser THEN @ ELSE @ + 1,
        !.user_bomb_used = IF user_move = Bomb THEN TRUE ELSE @,
        !.bot_bomb_used = IF bot_move = Bomb THEN TRUE ELSE @]

\* variant: bombs are recorded only in a round the user did not forfeit
update_game_state_no_flags_on_forfeit(state, round_result, user_move, bot_move) ==
    [state EXCEPT
        !.round_number = @ + 1,
        !.user_score = IF round_result.winner = WinUser THEN @ + 1 ELSE @,
        !.bot_score = IF round_result.winner = WinUser THEN @
                      ELSE IF round_result.winner = WinBot THEN @ + 1 ELSE @,
        !.user_bomb_used = IF user_move = Bomb THEN TRUE ELSE @,
        !.bot_bomb_used = IF bot_move = Bomb /\ user_move # None THEN TRUE ELSE @]

\* variant: the flags are assigned from the round's moves
update_game_state_assign_flags(state, round_result, user_move, bot_move) ==
    [state EXCEPT
        !.round_number = @ + 1,
        !.user_score = IF round_result.winner = WinUser THEN @ + 1 ELSE @,
        !.bot_score = IF round_result.winner = WinUser THEN @
                      ELSE IF round_result.winner = WinBot THEN @ + 1 ELSE @,
        !.user_bomb_used = (user_move = Bomb),
        !.bot_bomb_used = (bot_move = Bomb)]

update_game_state(state, round_result, user_move, bot_move) ==
    [state EXCEPT
        !.round_number = @ + 1,
        !.user_score = IF round_result.winner = WinUser THEN @ + 1 ELSE @,
        !.bot_score = IF round_result.winner = WinUser THEN @
                      ELSE IF round_result.winner = WinBot THEN @ + 1 ELSE @,
        !.user_bomb_used = IF user_move = Bomb THEN TRUE ELSE @,
        !.bot_bomb_used = IF bot_move = Bomb THEN TRUE ELSE @]

\* the tools of gadk_agent, by the __name__ of the wrapped function
gadk_agent == << "validate_move", "resolve_round", "update_game_state" >>

ADKToolError == "ADKToolError"

get_agent_tool_func(agent, tool_name) ==
    IF \E i \in 1..Len(agent) : agent[i] = tool_name
    THEN tool_name
    ELSE ADKToolError

\* variant: the tool's message is handed on as it is
parse_user_input_pass_message(raw, state) ==
    LET candidate == strip(raw)
        result == validate_move(candidate, state, TRUE)
    IN IF result.valid
       THEN << result.move, result.message >>
       ELSE << None, result.message >>

\* parse_user_input returns (move_or_None, message)
parse_user_input(raw, state) ==
    LET candidate == strip(raw)
        result == validate_move(candidate, state, TRUE)
    IN IF result.valid
       THEN << result.move, EmptyText >>
       ELSE << None, result.message >>

\* variant: bomb is always among the choices
choose_bot_move_always_bomb(state) ==
    << Rock, Paper, Scissors, Bomb >>

\* the list random.choice draws from in choose_bot_move
choose_bot_move(state) ==
    IF ~state.bot_bomb_used
    THEN << Rock, Paper, Scissors, Bomb >>
    ELSE << Rock, Paper, Scissors >>

\* ------------------------------------------------------------------
\* What the user may type at the prompt
\* ------------------------------------------------------------------
Words ==
    { Rock, Paper, Scissors, Bomb,
      << "r" >>, << "p" >>, << "s" >>, << "b" >>,
      << >>, << "1" >> }

\* each word in lower case and in upper case
Typed == UNION { { x, upper(x) } : x \in Words }

Spaces(n) == [i \in 1..n |-> " "]

Tabs(n) == [i \in 1..n |-> "\t"]

\* a typed word with up to MaxPad spaces before it and MaxPad tabs after it
RawInputs ==
    { Spaces(l) \o w \o Tabs(r) :
        l \in 0..MaxPad, r \in 0..MaxPad, w \in Typed }

\* ------------------------------------------------------------------
\* State
\* ------------------------------------------------------------------
VARIABLES
    pc,              \* position of the control thread
    state,           \* the GameState of main()
    user_move,       \* main's user_move (None when rejected)
    validation_msg,  \* main's validation_msg
    bot_move,        \* main's bot_move
    round_result,    \* main's round_result
    out,             \* what was printed, in order
    rounds,          \* history: the arguments and result of each resolve_round call
    update_calls,    \* history: number of update_game_state calls
    candidate,       \* the move argument of a validate_move call made on its own
    result           \* the ValidateResult of a validate_move call made on its own

vars == << pc, state, user_move, validation_msg, bot_move, round_result,
           out, rounds, update_calls, candidate, result >>

NoValidateResult == ValidateResult(FALSE, None, EmptyText)

NoRoundResult == RoundResult(None, EmptyText)

Init ==
    /\ pc = "start"
    /\ state = GameState
    /\ user_move = None
    /\ validation_msg = EmptyText
    /\ bot_move = None
    /\ round_result = NoRoundResult
    /\ out = << >>
    /\ rounds = << >>
    /\ update_calls = 0
    /\ candidate = None
    /\ result = NoValidateResult

\* ------------------------------------------------------------------
\* main()
\* ------------------------------------------------------------------
\* the three lines explain_rules prints
explain_rules ==
    << [kind |-> "rules", line |-> 1],
       [kind |-> "rules", line |-> 2],
       [kind |-> "rules", line |-> 3] >>

\* the lines generate_round_output prints, as one entry
generate_round_output(s, um, bm, rr) ==
    [kind |-> "round",
     round |-> s.round_number,
     your_move |-> IF um # None THEN um ELSE << "I","N","V","A","L","I","D" >>,
     bot_move |-> bm,
     result |-> upper(rr.winner),
     explain |-> rr.explanation,
     user_score |-> s.user_score,
     bot_score |-> s.bot_score]

\* variant: <= in the while condition
LoopCond_le(s) == s.round_number <= s.max_rounds

\* the while condition of main
LoopCond(s) == s.round_number < s.max_rounds

\* variant: >= in the comparisons of the final report
FinalReport_ge(s) ==
    [kind |-> "final",
     verdict |-> IF s.user_score >= s.bot_score THEN "You win!"
                 ELSE IF s.bot_score >= s.user_score THEN "Bot wins."
                 ELSE "Draw.",
     user_score |-> s.user_score,
     bot_score |-> s.bot_score]

\* the final report of main
FinalReport(s) ==
    [kind |-> "final",
     verdict |-> IF s.user_score > s.bot_score THEN "You win!"
                 ELSE IF s.bot_score > s.user_score THEN "Bot wins."
                 ELSE "Draw.",
     user_score |-> s.user_score,
     bot_score |-> s.bot_score]

\* banner, rules, state = GameState()
Start ==
    /\ pc = "start"
    /\ out' = out \o << [kind |-> "banner"] >> \o explain_rules
    /\ state' = GameState
    /\ pc' = "loop"
    /\ UNCHANGED << user_move, validation_msg, bot_move, round_result,
                    rounds, update_calls, candidate, result >>

\* while state.round_number < state.max_rounds
LoopTest ==
    /\ pc = "loop"
    /\ pc' = IF LoopCond(state) THEN "input" ELSE "final"
    /\ UNCHANGED << state, user_move, validation_msg, bot_move, round_result,
                    out, rounds, update_calls, candidate, result >>

\* variant: validation of a bomb records its use at once
ReadMove_marks_bomb ==
    /\ pc = "input"
    /\ \E raw \in RawInputs :
          /\ user_move' = parse_user_input(raw, state)[1]
          /\ validation_msg' = parse_user_input(raw, state)[2]
          /\ state' = IF parse_user_input(raw, state)[1] = Bomb
                      THEN [state EXCEPT !.user_bomb_used = TRUE]
                      ELSE state
          /\ pc' = "note"
    /\ out' = Append(out, [kind |-> "prompt", round |-> state.round_number + 1])
    /\ UNCHANGED << bot_move, round_result, rounds, update_calls,
                    candidate, result >>

\* raw = input(...); user_move, validation_msg = parse_user_input(raw, state)
ReadMove ==
    /\ pc = "input"
    /\ \E raw \in RawInputs :
          IF get_agent_tool_func(gadk_agent, "validate_move") = ADKToolError
          THEN /\ pc' = "aborted"
               /\ UNCHANGED << user_move, validation_msg >>
          ELSE /\ user_move' = parse_user_input(raw, state)[1]
               /\ validation_msg' = parse_user_input(raw, state)[2]
               /\ pc' = "note"
    /\ out' = Append(out, [kind |-> "prompt", round |-> state.round_number + 1])
    /\ UNCHANGED << state, bot_move, round_result, rounds, update_calls,
                    candidate, result >>

\* variant: the test of validation_msg is inverted
Note_inverted ==
    /\ pc = "note"
    /\ out' = IF ~Truthy(validation_msg)
              THEN Append(out, [kind |-> "note", msg |-> validation_msg])
              ELSE out
    /\ pc' = "choose"
    /\ UNCHANGED << state, user_move, validation_msg, bot_move, round_result,
                    rounds, update_calls, candidate, result >>

\* if validation_msg: print the note
Note ==
    /\ pc = "note"
    /\ out' = IF Truthy(validation_msg)
              THEN Append(out, [kind |-> "note", msg |-> validation_msg])
              ELSE out
    /\ pc' = "choose"
    /\ UNCHANGED << state, user_move, validation_msg, bot_move, round_result,
                    rounds, update_calls, candidate, result >>

\* bot_move = choose_bot_move(state)
Choose ==
    /\ pc = "choose"
    /\ \E i \in 1..Len(choose_bot_move(state)) :
          bot_move' = choose_bot_move(state)[i]
    /\ pc' = "resolve"
    /\ UNCHANGED << state, user_move, validation_msg, round_result, out,
                    rounds, update_calls, candidate, result >>

\* round_result = resolve_func(user_move, bot_move)
Resolve ==
    /\ pc = "resolve"
    /\ IF get_agent_tool_func(gadk_agent, "resolve_round") = ADKToolError
       THEN /\ pc' = "aborted"
            /\ UNCHANGED << round_result, rounds >>
       ELSE /\ round_result' = resolve_round(user_move, bot_move)
            /\ rounds' = Append(rounds,
                   [user_move |-> user_move, bot_move |-> bot_move,
                    winner |-> resolve_round(user_move, bot_move).winner])
            /\ pc' = "update"
    /\ UNCHANGED << state, user_move, validation_msg, bot_move, out,
                    update_calls, candidate, result >>

\* state = update_func(state, round_result, user_move, bot_move)
Update ==
    /\ pc = "update"
    /\ IF get_agent_tool_func(gadk_agent, "update_game_state") = ADKToolError
       THEN /\ pc' = "aborted"
            /\ UNCHANGED << state, update_calls >>
       ELSE /\ state' = update_game_state(state, round_result, user_move, bot_move)
            /\ update_calls' = update_calls + 1
            /\ pc' = "report"
    /\ UNCHANGED << user_move, validation_msg, bot_move, round_result, out,
                    rounds, candidate, result >>

\* generate_round_output(state, user_move, bot_move, round_result)
Report ==
    /\ pc = "report"
    /\ out' = Append(out, generate_round_output(state, user_move, bot_move,
                                                round_result))
    /\ pc' = "loop"
    /\ UNCHANGED << state, user_move, validation_msg, bot_move, round_result,
                    rounds, update_calls, candidate, result >>

\* Game over: the final result
Final ==
    /\ pc = "final"
    /\ out' = Append(out, FinalReport(state))
    /\ pc' = "done"
    /\ UNCHANGED << state, user_move, validation_msg, bot_move, round_result,
                    rounds, update_calls, candidate, result >>

Next ==
    \/ Start
    \/ LoopTest
    \/ ReadMove
    \/ Note
    \/ Choose
    \/ Resolve
    \/ Update
    \/ Report
    \/ Final

Spec == Init /\ [][Next]_vars

\* every step of main is eventually taken: the program is sequential and
\* each round's input arrives
FairSpec == Init /\ [][Next]_vars /\ WF_vars(Next)

\* ------------------------------------------------------------------
\* The tools called on their own, on any arguments
\* ------------------------------------------------------------------
Flags == { FALSE, TRUE }

ArgStates ==
    [round_number : 0..MaxRoundArg,
     user_score : 0..MaxScoreArg,
     bot_score : 0..MaxScoreArg,
     user_bomb_used : Flags,
     bot_bomb_used : Flags,
     max_rounds : { DefaultMaxRounds }]

ArgUserMoves == valid_moves \cup { None }

ArgResults == { RoundResult(w, EmptyText) : w \in { WinUser, WinBot, WinDraw } }

InitTools ==
    /\ state \in ArgStates
    /\ validation_msg = EmptyText
    /\ out = << >>
    /\ rounds = << >>
    /\ update_calls = 0
    /\ result = NoValidateResult
    /\ \/ /\ pc \in { "call_validate_user", "call_validate_bot" }
          /\ candidate \in RawInputs
          /\ user_move = None
          /\ bot_move = None
          /\ round_result = NoRoundResult
       \/ /\ pc = "call_choose"
          /\ candidate = None
          /\ user_move = None
          /\ bot_move = None
          /\ round_result = NoRoundResult
       \/ /\ pc = "call_resolve"
          /\ state = GameState
          /\ candidate = None
          /\ user_move \in ArgUserMoves
          /\ bot_move \in valid_moves
          /\ round_result = NoRoundResult
       \/ /\ pc = "call_update"
          /\ candidate = None
          /\ user_move \in ArgUserMoves
          /\ bot_move \in valid_moves
          /\ round_result \in ArgResults

\* validate_move(candidate, state, True)
CallValidateUser ==
    /\ pc = "call_validate_user"
    /\ result' = validate_move(candidate, state, TRUE)
    /\ pc' = "ret_validate_user"
    /\ UNCHANGED << state, user_move, validation_msg, bot_move, round_result,
                    out, rounds, update_calls, candidate >>

\* validate_move(candidate, state, False)
CallValidateBot ==
    /\ pc = "call_validate_bot"
    /\ result' = validate_move(candidate, state, FALSE)
    /\ pc' = "ret_validate_bot"
    /\ UNCHANGED << state, user_move, validation_msg, bot_move, round_result,
                    out, rounds, update_calls, candidate >>

\* choose_bot_move(state)
CallChoose ==
    /\ pc = "call_choose"
    /\ \E i \in 1..Len(choose_bot_move(state)) :
          bot_move' = choose_bot_move(state)[i]
    /\ pc' = "ret_choose"
    /\ UNCHANGED << state, user_move, validation_msg, round_result, out,
                    rounds, update_calls, candidate, result >>

\* resolve_round(user_move, bot_move)
CallResolve ==
    /\ pc = "call_resolve"
    /\ round_result' = resolve_round(user_move, bot_move)
    /\ pc' = "ret_resolve"
    /\ UNCHANGED << state, user_move, validation_msg, bot_move, out, rounds,
                    update_calls, candidate, result >>

\* update_game_state(state, round_result, user_move, bot_move)
CallUpdate ==
    /\ pc = "call_update"
    /\ state' = update_game_state(state, round_result, user_move, bot_move)
    /\ update_calls' = update_calls + 1
    /\ pc' = "ret_update"
    /\ UNCHANGED << user_move, validation_msg, bot_move, round_result, out,
                    rounds, candidate, result >>

NextTools ==
    \/ CallValidateUser
    \/ CallValidateBot
    \/ CallChoose
    \/ CallResolve
    \/ CallUpdate

ToolSpec == InitTools /\ [][NextTools]_vars

\* ------------------------------------------------------------------
\* Properties
\* ------------------------------------------------------------------
StandardMoves == { Rock, Paper, Scissors }

MsgInvalid == "Invalid move '{move}'. Valid: rock, paper, scissors, bomb"

MsgBombUsed == "Bomb already used by you in this game"

\* rounds in which the user played bomb / the bot played bomb
UserBombRounds == { i \in DOMAIN rounds : rounds[i].user_move = Bomb }

BotBombRounds == { i \in DOMAIN rounds : rounds[i].bot_move = Bomb }

Noted(fmt) == \E i \in DOMAIN out : out[i].kind = "note" /\ out[i].msg.fmt = fmt

\* C1: every game reaches the game-over report, and reaches it with
\* round_number = max_rounds after exactly 3 resolve_round and 3
\* update_game_state calls, however many rounds were forfeited.
C1_ThreeRounds ==
    /\ <>(pc = "done")
    /\ [](pc = "done" =>
            /\ state.round_number = state.max_rounds
            /\ update_calls = DefaultMaxRounds
            /\ Len(rounds) = DefaultMaxRounds)

\* a finished game all of whose rounds were forfeited
C1_Witness ==
    /\ pc = "done"
    /\ update_calls = DefaultMaxRounds
    /\ \A i \in DOMAIN rounds : rounds[i].user_move = None

\* C2: in one game the user's bomb is passed to resolve_round in at most one
\* round and the bot's bomb is chosen in at most one round, while rock, paper
\* and scissors are accepted from the user and offered to the bot in every state.
C2_BombOnce ==
    /\ Cardinality(UserBombRounds) <= 1
    /\ Cardinality(BotBombRounds) <= 1
    /\ \A m \in StandardMoves :
          /\ validate_move(m, state, TRUE).valid
          /\ \E i \in 1..Len(choose_bot_move(state)) : choose_bot_move(state)[i] = m

\* both played their bomb in round 1, the user asked for it again in round 3
C2_Witness ==
    /\ pc = "done"
    /\ rounds[1].user_move = Bomb
    /\ rounds[1].bot_move = Bomb
    /\ rounds[2].user_move = Rock
    /\ rounds[3].user_move = None
    /\ validation_msg.fmt = MsgBombUsed

\* C3: user_bomb_used holds exactly when a completed round of this game had
\* the user's validated move bomb, and once true it stays true.
C3_UserBombFlag ==
    /\ [](state.user_bomb_used <=>
            \E i \in 1..state.round_number : rounds[i].user_move = Bomb)
    /\ [][state.user_bomb_used => state'.user_bomb_used]_vars

\* the user's bomb met the bot's bomb in round 1 (a draw); the game went on
C3_Witness ==
    /\ state.user_bomb_used
    /\ state.round_number = 3
    /\ rounds[1].user_move = Bomb
    /\ rounds[1].winner = WinDraw

\* C4: a rejected submission (not a move, or a second bomb) never aborts the
\* game: the round is resolved as a forfeit won by the bot, update adds 1 to
\* bot_score and to round_number and leaves user_score and user_bomb_used
\* alone, and the loop goes on to the next round when one remains.
C4_ForfeitRecovered ==
    /\ [](pc # "aborted")
    /\ [](pc = "note" =>
            /\ (user_move = None) <=> Truthy(validation_msg)
            /\ Truthy(validation_msg) => validation_msg.fmt \in { MsgInvalid, MsgBombUsed })
    /\ [](pc \in { "update", "report" } /\ user_move = None =>
            round_result.winner = WinBot)
    /\ [][pc = "update" /\ user_move = None =>
            /\ state'.bot_score = state.bot_score + 1
            /\ state'.round_number = state.round_number + 1
            /\ state'.user_score = state.user_score
            /\ state'.user_bomb_used = state.user_bomb_used
            /\ pc' = "report"]_vars
    /\ [][pc = "report" => pc' = "loop"]_vars
    /\ [][pc = "loop" /\ state.round_number < DefaultMaxRounds => pc' = "input"]_vars

\* bomb in round 1, text that is no move in round 2, bomb again in round 3
C4_Witness ==
    /\ pc = "done"
    /\ rounds[1].user_move = Bomb
    /\ rounds[2].user_move = None
    /\ rounds[3].user_move = None
    /\ Noted(MsgInvalid)
    /\ validation_msg.fmt = MsgBombUsed
    /\ state.bot_score = 2
    /\ state.user_bomb_used

\* C5: 0 <= round_number <= max_rounds, max_rounds stays 3, and round_number
\* is the number of rounds processed by update_game_state so far.
C5_RoundBounds ==
    /\ 0 <= state.round_number
    /\ state.round_number <= state.max_rounds
    /\ state.max_rounds = DefaultMaxRounds
    /\ state.round_number = update_calls

\* the loop test is reached with all rounds played
C5_Witness ==
    /\ pc = "loop"
    /\ state.round_number = state.max_rounds
    /\ update_calls = 3

\* C6: every call of update_game_state adds exactly 1 to round_number, for
\* every winner, every user move (None included) and every bot move.
C6_RoundIncrement ==
    [][pc = "call_update" => state'.round_number = state.round_number + 1]_vars

\* update returned from a forfeited round
C6_Witness ==
    /\ pc = "ret_update"
    /\ user_move = None
    /\ round_result.winner = WinBot
    /\ state.round_number = 1

\* C7: update_game_state changes the scores by the winner only: user adds 1
\* to user_score alone, bot adds 1 to bot_score alone, draw changes neither.
C7_ScoreByWinner ==
    [][pc = "call_update" =>
        /\ round_result.winner = WinUser =>
              /\ state'.user_score = state.user_score + 1
              /\ state'.bot_score = state.bot_score
        /\ round_result.winner = WinBot =>
              /\ state'.bot_score = state.bot_score + 1
              /\ state'.user_score = state.user_score
        /\ round_result.winner = WinDraw =>
              /\ state'.user_score = state.user_score
              /\ state'.bot_score = state.bot_score]_vars

\* update returned from a drawn round with both scores still 0
C7_Witness ==
    /\ pc = "ret_update"
    /\ round_result.winner = WinDraw
    /\ state.user_score = 0
    /\ state.bot_score = 0
    /\ state.round_number = 1

\* C8: update_game_state turns user_bomb_used true exactly when user_move is
\* bomb and bot_bomb_used true exactly when bot_move is bomb, whoever won;
\* otherwise each flag keeps its value.
C8_BombFlags ==
    [][pc = "call_update" =>
        /\ state'.user_bomb_used = (state.user_bomb_used \/ user_move = Bomb)
        /\ state'.bot_bomb_used = (state.bot_bomb_used \/ bot_move = Bomb)]_vars

\* the user forfeited a round in which the bot played its bomb
C8_Witness ==
    /\ pc = "ret_update"
    /\ user_move = None
    /\ bot_move = Bomb
    /\ state.bot_bomb_used
    /\ ~state.user_bomb_used

\* C9: no step of the game decreases round_number or a score, or turns a
\* bomb flag from true back to false.
C9_Monotone ==
    [][/\ state'.round_number >= state.round_number
       /\ state'.user_score >= state.user_score
       /\ state'.bot_score >= state.bot_score
       /\ state.user_bomb_used => state'.user_bomb_used
       /\ state.bot_bomb_used => state'.bot_bomb_used]_vars

\* both bombs went in round 1 and two bomb-free rounds were updated after it
C9_Witness ==
    /\ state.round_number = 3
    /\ rounds[1].user_move = Bomb
    /\ rounds[1].bot_move = Bomb
    /\ state.user_bomb_used
    /\ state.bot_bomb_used
    /\ state.user_score + state.bot_score = 2

\* the pairs (user move, bot move) the user wins and the pairs that are drawn
RefUserWins ==
    { << Bomb, Rock >>, << Bomb, Paper >>, << Bomb, Scissors >>,
      << Rock, Scissors >>, << Scissors, Paper >>, << Paper, Rock >> }

RefDraws == { << m, m >> : m \in valid_moves }

\* C10: resolve_round names the winner of the reference rules for every user
\* move in {None, rock, paper, scissors, bomb} and every bot move: a forfeit
\* goes to the bot, bomb meets bomb in a draw, a lone bomb wins, equal moves
\* draw, rock beats scissors, scissors beats paper, paper beats rock.
C10_ResolveReference ==
    pc = "ret_resolve" =>
        /\ round_result.winner \in { WinUser, WinBot, WinDraw }
        /\ round_result.winner = WinUser <=> << user_move, bot_move >> \in RefUserWins
        /\ round_result.winner = WinDraw <=> << user_move, bot_move >> \in RefDraws
        /\ user_move = None => round_result.winner = WinBot

\* scissors against paper resolved for the user
C10_Witness ==
    /\ pc = "ret_resolve"
    /\ user_move = Scissors
    /\ bot_move = Paper
    /\ round_result.winner = WinUser

\* a validate_move call has returned
Validated == pc \in { "ret_validate_user", "ret_validate_bot" }

\* the bomb flag of the player the call was made for
CallerBombUsed ==
    IF pc = "ret_validate_user" THEN state.user_bomb_used ELSE state.bot_bomb_used

\* the candidate, trimmed and lower-cased
Normalized == lower(strip(candidate))

\* the words that name a move, with the move each names
RefCanonical ==
    { << Rock, Rock >>, << Paper, Paper >>, << Scissors, Scissors >>,
      << Bomb, Bomb >>, << << "r" >>, Rock >>, << << "p" >>, Paper >>,
      << << "s" >>, Scissors >> }

NamesMove == \E p \in RefCanonical : p[1] = Normalized

\* C11 as stated: every candidate that trims and lower-cases to rock, paper,
\* scissors, bomb, r, p or s is valid with its canonical word, whatever the
\* caller's bomb flag.
C11_Original ==
    Validated /\ NamesMove =>
        /\ result.valid
        /\ << Normalized, result.move >> \in RefCanonical

\* C11 amended: the same, except that bomb is rejected when the calling
\* player's bomb flag is already true.
C11_ValidCanonical ==
    Validated /\ NamesMove /\ ~(Normalized = Bomb /\ CallerBombUsed) =>
        /\ result.valid
        /\ << Normalized, result.move >> \in RefCanonical

\* an upper-case S between a space and a tab was validated as scissors
C11_Witness ==
    /\ pc = "ret_validate_user"
    /\ candidate = << " ", "S", "\t" >>
    /\ result.valid
    /\ result.move = Scissors

\* C12: a candidate that names no move is invalid, with no move and a
\* non-empty message; a valid result carries one of the four canonical words.
C12_InvalidRejected ==
    Validated =>
        /\ ~NamesMove =>
              /\ ~result.valid
              /\ result.move = None
              /\ Truthy(result.message)
        /\ result.valid => result.move \in valid_moves

\* the single letter b was rejected
C12_Witness ==
    /\ pc = "ret_validate_user"
    /\ candidate = << "b" >>
    /\ ~result.valid
    /\ result.move = None
    /\ result.message.fmt = MsgInvalid

\* C13: bomb is rejected exactly when the calling player's own flag is true,
\* and rock, paper and scissors are accepted whatever the flags.
C13_BombCheck ==
    Validated /\ NamesMove =>
        /\ Normalized = Bomb => (result.valid <=> ~CallerBombUsed)
        /\ Normalized # Bomb => result.valid

\* the bot's bomb was accepted although the user's bomb is used
C13_Witness ==
    /\ pc = "ret_validate_bot"
    /\ Normalized = Bomb
    /\ state.user_bomb_used
    /\ ~state.bot_bomb_used
    /\ result.valid
    /\ result.move = Bomb

MsgOK == "OK"

\* C14 as stated: the message of every valid ValidateResult is the empty
\* string.
C14_Original ==
    Validated /\ result.valid => ~Truthy(result.message)

\* C14 amended: the message of a ValidateResult is "OK" on every successful
\* validation and a non-empty reason on every failed one; the message
\* parse_user_input returns for the same candidate is empty exactly on success.
C14_Messages ==
    Validated =>
        /\ result.valid => result.message = Text(MsgOK, NoArg)
        /\ ~result.valid => Truthy(result.message)
        /\ pc = "ret_validate_user" =>
              /\ result.valid <=> ~Truthy(parse_user_input(candidate, state)[2])
              /\ ~result.valid =>
                    parse_user_input(candidate, state)[2].fmt = result.message.fmt

\* paper was validated with the message OK
C14_Witness ==
    /\ pc = "ret_validate_user"
    /\ candidate = Paper
    /\ result.valid
    /\ result.message.fmt = MsgOK
    /\ parse_user_input(candidate, state) = << Paper, EmptyText >>

\* C15: choose_bot_move draws from rock, paper, scissors, and bomb only while
\* bot_bomb_used is false; the list it draws from is the same for every state
\* with the same bot_bomb_used, whatever the user's move.
C15_BotMoveLegal ==
    /\ pc = "ret_choose" =>
          /\ bot_move \in valid_moves
          /\ state.bot_bomb_used => bot_move # Bomb
    /\ { choose_bot_move(state)[i] : i \in 1..Len(choose_bot_move(state)) }
          = IF state.bot_bomb_used THEN StandardMoves ELSE valid_moves
    /\ \A s \in ArgStates :
          s.bot_bomb_used = state.bot_bomb_used =>
              choose_bot_move(s) = choose_bot_move(state)

\* a move was chosen after the bot's bomb was used, the user's still unused
C15_Witness ==
    /\ pc = "ret_choose"
    /\ state.bot_bomb_used
    /\ ~state.user_bomb_used
    /\ bot_move = Scissors

\* the round reports printed so far
Reported == { i \in DOMAIN out : out[i].kind = "round" }

\* C16: the GameState changes in no step other than the update_game_state
\* call (reading and validating the move, choosing the bot move, resolving and
\* reporting leave every field alone, a validated bomb included), and each
\* iteration of the loop makes exactly one update_game_state call.
C16_OnlyUpdateMutates ==
    /\ [][pc # "update" => state' = state]_vars
    /\ [][update_calls' # update_calls =>
            pc = "update" /\ update_calls' = update_calls + 1]_vars
    /\ [](pc = "loop" =>
            /\ update_calls = Len(rounds)
            /\ update_calls = Cardinality(Reported))
    /\ [](pc \in { "note", "choose", "resolve", "update" } =>
            update_calls = Cardinality(Reported))
    /\ [](pc = "report" => update_calls = Cardinality(Reported) + 1)

\* a bomb came through validation and its flag is still false
C16_Witness ==
    /\ pc = "note"
    /\ user_move = Bomb
    /\ ~state.user_bomb_used
    /\ update_calls = 1

InvalidWord == << "I","N","V","A","L","I","D" >>

\* the user's move was reported as bomb before entry j of the output
BombReportedBefore(j) ==
    \E i \in 1..(j - 1) : out[i].kind = "round" /\ out[i].your_move = Bomb

\* C17: a round whose submission is rejected prints one diagnostic naming the
\* problem (a value that is no move, or a bomb already used) after the prompt
\* and before the round's report; a round whose submission is valid prints none.
C17_DiagnosticFirst ==
    /\ \A j \in DOMAIN out :
          out[j].kind = "round" =>
             /\ j > 2
             /\ out[j].your_move = InvalidWord <=> out[j - 1].kind = "note"
             /\ out[j].your_move # InvalidWord =>
                   /\ out[j - 1].kind = "prompt"
                   /\ out[j - 1].round = out[j].round
    /\ \A n \in DOMAIN out :
          out[n].kind = "note" =>
             /\ n > 1
             /\ out[n - 1].kind = "prompt"
             /\ out[n].msg.fmt \in { MsgInvalid, MsgBombUsed }
             /\ out[n].msg.fmt = MsgBombUsed => BombReportedBefore(n)
             /\ out[n].msg.fmt = MsgInvalid =>
                   mapping(lower(strip(out[n].msg.arg))) \notin valid_moves
             /\ IF n < Len(out)
                THEN /\ out[n + 1].kind = "round"
                     /\ out[n + 1].round = out[n - 1].round
                     /\ out[n + 1].your_move = InvalidWord
                ELSE /\ pc \in { "choose", "resolve", "update", "report" }
                     /\ user_move = None
    /\ pc \in { "choose", "resolve", "update", "report" } /\ user_move = None =>
          out[Len(out)].kind = "note"
    /\ pc \in { "choose", "resolve", "update", "report" } /\ user_move # None =>
          out[Len(out)].kind = "prompt"

\* a valid bomb, then a value that is no move, then a second bomb
C17_Witness ==
    /\ pc = "done"
    /\ Cardinality({ n \in DOMAIN out : out[n].kind = "note" }) = 2
    /\ \E n \in DOMAIN out :
          /\ out[n].kind = "note"
          /\ out[n].msg = Text(MsgInvalid, << "B" >>)
          /\ out[n + 1].kind = "round"
          /\ out[n + 1].round = 2
    /\ \E n \in DOMAIN out :
          /\ out[n].kind = "note"
          /\ out[n].msg.fmt = MsgBombUsed
          /\ out[n + 1].kind = "round"
          /\ out[n + 1].round = 3

\* completed rounds won by w
RoundsWon(w) == { i \in 1..state.round_number : rounds[i].winner = w }

\* the moves of the rounds, in order
UserMoves == [i \in DOMAIN rounds |-> rounds[i].user_move]

BotMoves == [i \in DOMAIN rounds |-> rounds[i].bot_move]

\* C18: at game over the scores are the numbers of rounds won by the user and
\* by the bot, and the final line reports them with a user win iff
\* user_score > bot_score, a bot win iff bot_score > user_score and a draw
\* iff they are equal; rock, paper, bomb against scissors, rock, rock ends
\* 3-0 for the user.
C18_FinalVerdict ==
    pc = "done" =>
        /\ state.user_score = Cardinality(RoundsWon(WinUser))
        /\ state.bot_score = Cardinality(RoundsWon(WinBot))
        /\ out[Len(out)].kind = "final"
        /\ out[Len(out)].user_score = state.user_score
        /\ out[Len(out)].bot_score = state.bot_score
        /\ out[Len(out)].verdict = "You win!" <=> state.user_score > state.bot_score
        /\ out[Len(out)].verdict = "Bot wins." <=> state.bot_score > state.user_score
        /\ out[Len(out)].verdict = "Draw." <=> state.user_score = state.bot_score
        /\ (UserMoves = << Rock, Paper, Bomb >> /\ BotMoves = << Scissors, Rock, Rock >>) =>
              /\ state.user_score = 3
              /\ state.bot_score = 0
              /\ out[Len(out)].verdict = "You win!"

\* the game rock, paper, bomb against scissors, rock, rock is over
C18_Witness ==
    /\ pc = "done"
    /\ UserMoves = << Rock, Paper, Bomb >>
    /\ BotMoves = << Scissors, Rock, Rock >>
    /\ out[Len(out)].verdict = "You win!"

\* C19: the scores are never negative, user_score + bot_score <= round_number
\* <= max_rounds, and round_number - (user_score + bot_score) is the number
\* of completed rounds that were drawn.
C19_ScoreBounds ==
    /\ state.user_score >= 0
    /\ state.bot_score >= 0
    /\ state.user_score + state.bot_score <= state.round_number
    /\ state.round_number <= state.max_rounds
    /\ state.round_number - (state.user_score + state.bot_score)
          = Cardinality(RoundsWon(WinDraw))

\* three rounds, one drawn, one for each player
C19_Witness ==
    /\ state.round_number = 3
    /\ Cardinality(RoundsWon(WinDraw)) = 1
    /\ state.user_score = 1
    /\ state.bot_score = 1

\* C20: on valid moves resolve_round treats the players alike: (a, b) is won
\* by the user iff (b, a) is won by the bot, and (a, b) is a draw iff (b, a)
\* is a draw iff a = b.
C20_Symmetric ==
    pc = "ret_resolve" /\ user_move # None =>
        /\ round_result.winner = WinUser
              <=> resolve_round(bot_move, user_move).winner = WinBot
        /\ round_result.winner = WinBot
              <=> resolve_round(bot_move, user_move).winner = WinUser
        /\ round_result.winner = WinDraw
              <=> resolve_round(bot_move, user_move).winner = WinDraw
        /\ round_result.winner = WinDraw <=> user_move = bot_move

\* bomb against bomb resolved as a draw
C20_Witness ==
    /\ pc = "ret_resolve"
    /\ user_move = Bomb
    /\ bot_move = Bomb
    /\ round_result.winner = WinDraw

====
